---- MODULE Spec2Model ----
(***************************************************************************)
(* A model of the signals runtime of packages/signals: Signal,             *)
(* ComputedSignal, Effect, batch and untrack (signals.ts) and              *)
(* AsyncComputed (async-signals.ts).                                       *)
(*                                                                         *)
(* JavaScript runs every handler to completion on one thread.  A handler   *)
(* is modelled by a stack of frames (the JS call stack); one step of the   *)
(* model executes the code of the frame on top of the stack.  While the    *)
(* stack is not empty nothing else can happen: the caller's operations     *)
(* (writes, reads, batch, the microtask queue, promise settlements) are    *)
(* enabled only when the stack is empty.                                   *)
(***************************************************************************)
EXTENDS Integers, Sequences, FiniteSets, TLC

\* ------------------------------------------------------------------ bounds

\* Cells are written with the values 1..MaxVal.
MaxVal == 3
\* The log of subscriber deliveries of one handler keeps at most MaxLog entries.
MaxLog == 3
\* Nothing is written while MaxQueue microtasks are waiting.
MaxQueue == 3
\* An AsyncComputed starts at most MaxRuns runs.
MaxRuns == 3
\* batch calls nest at most MaxBatchDepth deep.
MaxBatchDepth == 2

\* The debounce delay of the AsyncComputed, in ticks of the clock.
DebounceTicks == 2

\* ------------------------------------------------------------------ values

\* ComputedSignal's constructor: super(undefined as any).
Undefined == -1
\* undefined + 1 in JavaScript.
NaN == -2

\* The outcome of a promise that rejects with an Error.
Rejected == -3

\* The JavaScript operator !== on numbers and undefined: NaN differs from itself.
StrictNeMutAlways(x, y) == TRUE

StrictNe(x, y) == x # y \/ x = NaN \/ y = NaN

\* The JavaScript operators + and * on numbers and undefined.
JsAdd(x, y) == IF x < 0 \/ y < 0 THEN NaN ELSE x + y

JsMul(x, y) == IF x < 0 \/ y < 0 THEN NaN ELSE x * y

\* x > 0 ? 1 : 0 in JavaScript: undefined > 0 and NaN > 0 are false.
JsPositive(x) == IF x > 0 THEN 1 ELSE 0

\* ------------------------------------------------------------------- graph

Null == "null"
None == "none"

Cells        == {"a", "b"}
Computeds    == {"left", "right", "result", "comp", "cx", "cy", "kx", "ky", "pick",
                 "errorComputed", "doubled", "plus"}
Effects      == {"e", "guard", "owner", "loop"}
Asyncs       == {"ac"}
Signals      == Cells \cup Computeds \cup Asyncs
Computations == Computeds \cup Effects \cup Asyncs

\* The programs (graphs built by the caller) the model explores.
\*   diamond: left = a*2, right = a*3, result = left + right; a subscriber of
\*            result.
\*   untrack: comp = a + untrack(() => b); a subscriber of comp.
\*   cycle:   cx = cy + 1, cy = cx + 1.
\*   flags:   kx = ky > 0 ? 1 : 0, ky = kx > 0 ? 1 : 0.
\*   cond:    pick = a === 1 ? b : a.
\*   effect:  effect(() => callback(a + b)); a subscriber of a.
\*   async:   ac = asyncComputed(() => promise of a * 2); a subscriber of ac.
\*   debounce: the same with the option debounce > 0.
\*   throws:  errorComputed = computed(() => { if (a > 1) throw ...; return a*2 })
\*            and left = a*2.
\*   reject:  ac = asyncComputed(() => promise that rejects if a > 1 and
\*            resolves to a * 2 otherwise); a subscriber of ac.
\*   errors:  guard = effect(() => { if (a > 1) throw ... }, { onError });
\*            two subscribers of a, the first of which throws.
\*   nested:  a = signal(2); owner = effect(() => { ac = asyncComputed(the
\*            function of reject) }); a subscriber of ac.  The Effect reads
\*            no signal and the caller keeps no reference to it.
\*   selfrun: loop = effect(() => { const v = a.value; if (v < 3) a.value =
\*            v + 1; loop.run() }, { immediate: false }).
\*   chain:   doubled = a*2, plus = doubled + 10; a subscriber of doubled;
\*            the caller disposes Computeds.
\*   form:    store = createFormStore(...); setState(key, value) calls.
Scenarios == {"diamond", "untrack", "cycle", "flags", "cond", "effect", "async",
              "debounce", "throws", "reject", "errors", "nested", "selfrun",
              "chain", "form"}

\* The keys of the form data the caller sets.
Keys == {"x", "y"}

CellsOf(s) ==
    CASE s = "diamond" -> {"a"}
      [] s = "untrack" -> {"a", "b"}
      [] s = "cond" -> {"a", "b"}
      [] s = "effect" -> {"a", "b"}
      [] s \in {"async", "debounce", "throws", "reject", "errors", "nested",
                "selfrun", "chain"} -> {"a"}
      [] OTHER -> {}

ComputedsOf(s) ==
    CASE s = "diamond" -> {"left", "right", "result"}
      [] s = "untrack" -> {"comp"}
      [] s = "cycle" -> {"cx", "cy"}
      [] s = "flags" -> {"kx", "ky"}
      [] s = "cond" -> {"pick"}
      [] s = "throws" -> {"errorComputed", "left"}
      [] s = "chain" -> {"doubled", "plus"}
      [] OTHER -> {}

\* The callbacks subscribed to each signal, in subscription order.
SubscribersOf(s, n) ==
    CASE s = "diamond" /\ n = "result" -> <<"onResult">>
      [] s = "untrack" /\ n = "comp" -> <<"onComp">>
      [] s = "chain" /\ n = "doubled" -> <<"callback">>
      [] s = "effect" /\ n = "a" -> <<"onA">>
      [] s = "errors" /\ n = "a" -> <<"errorCallback", "normalCallback">>
      [] s \in {"async", "debounce", "reject", "nested"} /\ n = "ac" -> <<"onAc">>
      [] OTHER -> <<>>

\* The Effects and AsyncComputeds the program constructs.
EffectsOf(s) ==
    CASE s = "effect" -> {"e"}
      [] s = "errors" -> {"guard"}
      [] s = "selfrun" -> {"loop"}
      [] OTHER -> {}

\* The Effects constructed with the option immediate: false.
Deferred == {"loop"}

\* The Effects whose function writes a cell and calls run().
Stepwise(e) == e = "loop"

AsyncsOf(s) ==
    IF s \in {"async", "debounce", "reject", "nested"} THEN {"ac"} ELSE {}

\* The computation whose function constructs the AsyncComputed, or Null.
ConstructedIn(s) == IF s = "nested" THEN "owner" ELSE Null

\* The value the program gives cell n at construction.
InitialValue(s, n) == IF s = "nested" THEN 2 ELSE 1

\* The cells an Effect's function or an AsyncComputed's function reads before
\* it returns, in order.
ReadsOf(n) ==
    CASE n = "e" -> <<"a", "b">>
      [] n = "guard" -> <<"a">>
      [] n = "ac" -> <<"a">>
      [] OTHER -> <<>>

\* The compute functions.  A function is given by what it does next after the
\* reads it has made so far returned vals: read a signal (tracked, or inside
\* untrack), or return a value.
OpRead(t)    == [op |-> "read", t |-> t, val |-> 0]
OpUntrack(t) == [op |-> "untrack", t |-> t, val |-> 0]
OpRet(v)     == [op |-> "ret", t |-> Null, val |-> v]
OpThrow      == [op |-> "throw", t |-> Null, val |-> 0]

Body(c, vals) ==
    CASE c = "left" ->
            IF Len(vals) = 0 THEN OpRead("a") ELSE OpRet(JsMul(vals[1], 2))
      [] c = "right" ->
            IF Len(vals) = 0 THEN OpRead("a") ELSE OpRet(JsMul(vals[1], 3))
      [] c = "result" ->
            IF Len(vals) = 0 THEN OpRead("left")
            ELSE IF Len(vals) = 1 THEN OpRead("right")
            ELSE OpRet(JsAdd(vals[1], vals[2]))
      [] c = "comp" ->
            IF Len(vals) = 0 THEN OpRead("a")
            ELSE IF Len(vals) = 1 THEN OpUntrack("b")
            ELSE OpRet(JsAdd(vals[1], vals[2]))
      [] c = "cx" ->
            IF Len(vals) = 0 THEN OpRead("cy") ELSE OpRet(JsAdd(vals[1], 1))
      [] c = "cy" ->
            IF Len(vals) = 0 THEN OpRead("cx") ELSE OpRet(JsAdd(vals[1], 1))
      [] c = "kx" ->
            IF Len(vals) = 0 THEN OpRead("ky") ELSE OpRet(JsPositive(vals[1]))
      [] c = "ky" ->
            IF Len(vals) = 0 THEN OpRead("kx") ELSE OpRet(JsPositive(vals[1]))
      [] c = "pick" ->
            IF Len(vals) = 0 THEN OpRead("a")
            ELSE IF Len(vals) = 1
                 THEN IF vals[1] = 1 THEN OpRead("b") ELSE OpRet(vals[1])
            ELSE OpRet(vals[2])
      [] c = "doubled" ->
            IF Len(vals) = 0 THEN OpRead("a") ELSE OpRet(JsMul(vals[1], 2))
      [] c = "plus" ->
            IF Len(vals) = 0 THEN OpRead("doubled") ELSE OpRet(JsAdd(vals[1], 10))
      [] c = "errorComputed" ->
            IF Len(vals) = 0 THEN OpRead("a")
            ELSE IF vals[1] > 1 THEN OpThrow ELSE OpRet(JsMul(vals[1], 2))
      [] OTHER -> OpRet(Undefined)

\* ------------------------------------------------------------------- state

VARIABLES
    scn,                \* the program being run
    value,              \* Signal._value
    subscribers,        \* Signal.subscribers, in insertion order
    computedSignals,    \* Signal.computedSignals, in insertion order
    dependencies,       \* ComputedSignal.dependencies
    isStale,            \* ComputedSignal.isStale
    isComputing,        \* ComputedSignal.isComputing
    isRunning,          \* Effect.isRunning
    isDisposed,         \* Effect.isDisposed
    abortController,    \* AsyncComputed.abortController: the controller's number
    aborted,            \* the AbortControllers that have been aborted
    runs,               \* the runs of the AsyncComputed whose promise is pending
    started,            \* the number of runs the AsyncComputed has started
    microtasks,         \* the microtask queue
    draining,           \* the microtask queue is being drained
    currentComputation, \* the tracker
    isBatching,         \* the batch flag
    batchedSignals,     \* the batch's pending set, in insertion order
    stack,              \* the call stack, top first
    exc,                \* the exception being thrown, or None
    \* what an observer of the run has seen (not program state)
    handler,            \* the caller's operation in progress or last finished
    outcome,            \* how the last finished operation ended
    delivered,          \* <<callback, value>> deliveries of the current operation
    lastRead,           \* the last read of a Computed that returned: <<signal, value>>
    batchDepth,         \* the number of batch calls whose function is running
    effectRuns,         \* runs of the Effect's function in the current turn
    lastApplied,        \* the last run of the AsyncComputed whose result was applied
    writes,             \* the writes that changed a cell, up to MaxRuns
    firstSettled,       \* the number of such writes before the first run's promise resolved
    timer,              \* AsyncComputed.debounceTimer is pending
    acDisposed,         \* dispose() of the AsyncComputed has been called
    tracked,            \* the signals each computation read with tracking in its latest run
    before,             \* the edges when the caller's last read of a Computed began
    atDispose,          \* the runs started and the value when the AsyncComputed was disposed
    windows,            \* the debounce windows opened: the timer was set while none was pending
    clock,              \* ticks since the debounce timer was set (age) and since the last dependency write (quiet, capped), and quiet when the timer last fired
    form                \* the form store: its data, the setState calls awaiting validation and the keys setState was called with

vars == <<scn, value, subscribers, computedSignals, dependencies, isStale,
          isComputing, isRunning, isDisposed, abortController, aborted, runs,
          started, microtasks, currentComputation, isBatching, batchedSignals,
          stack, exc, handler, outcome, delivered, lastRead, batchDepth,
          effectRuns, lastApplied, writes, firstSettled, draining, timer,
          acDisposed, tracked, before, atDispose, windows,
          clock,
          form>>

\* AsyncComputed.debounceMs > 0.
DebouncedMutNever == FALSE

Debounced == scn = "debounce"

\* The value the promise of an AsyncComputed's function resolves to, from the
\* values it read before returning the promise, or its rejection.
AsyncResult(n, vals) ==
    IF scn \in {"reject", "nested"} /\ vals[1] > 1 THEN Rejected
    ELSE JsMul(vals[1], 2)

\* The variables of Effect and AsyncComputed and of the microtask queue.
asyncVars == <<isRunning, isDisposed, abortController, aborted, runs, started,
               microtasks, effectRuns, lastApplied, writes, firstSettled,
               timer, acDisposed>>

\* ------------------------------------------------------- ordered sets (Set)

Range(s) == {s[i] : i \in 1..Len(s)}

\* Set.prototype.add appends a value that is not in the set.
SetAdd(s, x) == IF x \in Range(s) THEN s ELSE Append(s, x)

\* Set.prototype.delete.
SetDelete(s, x) == SelectSeq(s, LAMBDA y : y # x)

Frame(k, n, q, v, p) == [k |-> k, n |-> n, q |-> q, v |-> v, p |-> p]

Push(f, st) == <<f>> \o st

Top == stack[1]

Idle == stack = <<>> /\ exc = None

\* The caller's code runs in a task: the microtask queue, once a microtask has
\* run, is drained before the next task starts.
Task == Idle /\ (draining => microtasks = <<>>)

\* -------------------------------------------------------------------- Init

\* The state after the program has constructed its graph.  The constructor of
\* an immediate Effect has run its function once; the constructor of an
\* AsyncComputed has started the first run, whose promise is pending.
\* The edges of the graph: every computation's dependencies and every
\* signal's dependents.
Edges == [deps |-> dependencies,
          cs |-> [n \in Signals |-> Range(computedSignals[n])]]

Init ==
    /\ scn \in Scenarios
    /\ value = [n \in Signals |->
            IF n \in Cells THEN InitialValue(scn, n) ELSE Undefined]
    /\ subscribers = [n \in Signals |-> SubscribersOf(scn, n)]
    /\ dependencies = [c \in Computations |->
            IF c \in (EffectsOf(scn) \ Deferred) \cup AsyncsOf(scn)
            THEN Range(ReadsOf(c)) ELSE {}]
    /\ computedSignals = [n \in Signals |->
            CASE scn = "effect" /\ n \in Range(ReadsOf("e")) -> <<"e">>
              [] scn = "errors" /\ n \in Range(ReadsOf("guard")) -> <<"guard">>
              [] AsyncsOf(scn) # {} /\ n \in Range(ReadsOf("ac")) -> <<"ac">>
              [] OTHER -> <<>>]
    /\ isStale = [c \in Computeds \cup Asyncs |-> c \in Computeds]
    /\ isComputing = [c \in Computeds \cup Asyncs |-> c \in AsyncsOf(scn)]
    /\ isRunning = [e \in Effects |-> FALSE]
    /\ isDisposed = [e \in Effects |-> FALSE]
    /\ abortController = 0
    /\ aborted = {}
    /\ runs = IF AsyncsOf(scn) # {}
              THEN <<[id |-> 1, ctl |-> 0,
                      res |-> AsyncResult("ac", <<InitialValue(scn, "a")>>),
                      st |-> "pending", prev |-> ConstructedIn(scn)]>>
              ELSE <<>>
    /\ started = IF AsyncsOf(scn) # {} THEN 1 ELSE 0
    /\ microtasks = <<>>
    /\ draining = FALSE
    /\ currentComputation = Null
    /\ isBatching = FALSE
    /\ batchedSignals = <<>>
    /\ stack = <<>>
    /\ exc = None
    /\ handler = [op |-> "none", n |-> Null, v |-> 0]
    /\ outcome = <<"none", 0>>
    /\ delivered = <<>>
    /\ lastRead = <<>>
    /\ batchDepth = 0
    /\ effectRuns = 0
    /\ lastApplied = 0
    /\ writes = 0
    /\ firstSettled = -1
    /\ timer = FALSE
    /\ acDisposed = FALSE
    /\ tracked = [c \in Computations |->
            IF c \in (EffectsOf(scn) \ Deferred) \cup AsyncsOf(scn)
            THEN Range(ReadsOf(c)) ELSE {}]
    /\ before = Edges
    /\ atDispose = [started |-> 0, value |-> Undefined]
    /\ windows = 0
    /\ clock = [age |-> 0, quiet |-> DebounceTicks, fired |-> DebounceTicks]
    /\ form = [data |-> [k \in Keys |-> 0], calls |-> {}, called |-> {}]

\* ------------------------------------------------- dependency bookkeeping

\* addDependency(signal) of computation c: the edge is stored on both sides.
\* Set.prototype.forEach visits a value added while it runs, so the value is
\* appended to what every running forEach over signal.computedSignals has
\* still to visit.
AddDepDeps(deps, c, s) == [deps EXCEPT ![c] = @ \cup {s}]

AddDepCSMutNone(deps, cs, c, s) == cs

AddDepCS(deps, cs, c, s) ==
    IF s \in deps[c] THEN cs ELSE [cs EXCEPT ![s] = SetAdd(@, c)]

AddDepStack(deps, cs, st, c, s) ==
    IF s \in deps[c] \/ c \in Range(cs[s]) THEN st
    ELSE [i \in 1..Len(st) |->
            IF st[i].k = "forEach" /\ st[i].n = s
            THEN [st[i] EXCEPT !.q = Append(@, c)]
            ELSE st[i]]

ClearDepsCSMutKeep(deps, cs, c) == cs

\* clearDependencies() of computation c.  Set.prototype.forEach does not
\* visit a value deleted before it was reached.
ClearDepsCS(deps, cs, c) ==
    [s \in DOMAIN cs |-> IF s \in deps[c] THEN SetDelete(cs[s], c) ELSE cs[s]]

ClearDepsStack(deps, st, c) ==
    [i \in 1..Len(st) |->
        IF st[i].k = "forEach" /\ st[i].n \in deps[c]
        THEN [st[i] EXCEPT !.q = SetDelete(@, c)]
        ELSE st[i]]

\* The tracker registers a read of signal t with the running computation:
\* Signal.value (getter) and ComputedSignal.value (getter), which skips itself.
Tracks(t) == currentComputation # Null /\ currentComputation # t

TrackDeps(t) ==
    IF Tracks(t) THEN AddDepDeps(dependencies, currentComputation, t)
    ELSE dependencies

TrackCS(t) ==
    IF Tracks(t)
    THEN AddDepCS(dependencies, computedSignals, currentComputation, t)
    ELSE computedSignals

TrackStack(t, st) ==
    IF Tracks(t)
    THEN AddDepStack(dependencies, computedSignals, st, currentComputation, t)
    ELSE st

\* computedSignals after computation c, called with an empty stack, has
\* cleared its dependencies and its function has read the cells ReadsOf(c)
\* with the tracker pointing at c.
RereadCS(c) ==
    [s \in DOMAIN computedSignals |->
        IF s \in Range(ReadsOf(c))
        THEN Append(SetDelete(computedSignals[s], c), c)
        ELSE IF s \in dependencies[c] THEN SetDelete(computedSignals[s], c)
        ELSE computedSignals[s]]

\* The signals read with tracking, after a read of signal t.
Seen(t) ==
    IF currentComputation # Null
    THEN [tracked EXCEPT ![currentComputation] = @ \cup {t}]
    ELSE tracked

\* The value x is returned to the function of the frame on top of st.
Return(st, x) == [st EXCEPT ![1].v = Append(@, x)]

\* ------------------------------------------------------------ observation

Cap(log) == IF Len(log) > MaxLog THEN SubSeq(log, 1, MaxLog) ELSE log

DeliveriesMutReversed(n) ==
    [i \in 1..Len(subscribers[n]) |->
        <<subscribers[n][Len(subscribers[n]) + 1 - i], value[n]>>]

\* The deliveries of signal n's value to its subscribers, in subscription order.
Deliveries(n) == [i \in 1..Len(subscribers[n]) |-> <<subscribers[n][i], value[n]>>]

CalledMutStopAtThrow(n) ==
    IF \E i \in 1..Len(subscribers[n]) : subscribers[n][i] = "errorCallback"
    THEN SubSeq(Deliveries(n), 1,
                CHOOSE i \in 1..Len(subscribers[n]) :
                    subscribers[n][i] = "errorCallback")
    ELSE Deliveries(n)

\* The calls made by the loop over the subscribers in Signal.notify: every
\* call is inside a try/catch, so a callback that throws does not end the
\* loop and nothing is thrown out of it.
Called(n) == Deliveries(n)

\* The number of deliveries to callback cb.
Count(log, cb) == Cardinality({i \in 1..Len(log) : log[i][1] = cb})

\* No Computed of the program has been evaluated yet.
Fresh == \A c \in ComputedsOf(scn) : value[c] = Undefined

\* The caller starts an operation: outside a batch the observations start anew.
Begin(op, n, v) ==
    /\ handler' = [op |-> op, n |-> n, v |-> v]
    /\ outcome' = <<"none", 0>>
    /\ lastRead' = <<>>
    /\ delivered' = IF batchDepth = 0 THEN <<>> ELSE delivered

Pending(kind) == Len(SelectSeq(microtasks, LAMBDA t : t.t = kind))

\* ------------------------------------------------ the caller's operations

\* The test of ComputedSignal.value (getter): this.isStale && !this.isComputing.
NeedsRecomputeMutNever(c) == FALSE

NeedsRecompute(c) == isStale[c] /\ ~isComputing[c]

\* signal.value = v (the setter of Signal).
ChangesMutAlways(s, v) == TRUE

\* The setter's test this._value !== newValue.
Changes(s, v) == StrictNe(value[s], v)

Write(s, v) ==
    /\ Task
    /\ s \in CellsOf(scn)
    /\ Len(microtasks) < MaxQueue
    /\ started + Pending("recompute") + (IF timer THEN 1 ELSE 0) < MaxRuns
    /\ Begin("write", s, v)
    /\ effectRuns' = IF microtasks = <<>> /\ batchDepth = 0 THEN 0 ELSE effectRuns
    /\ IF Changes(s, v)
       THEN /\ value' = [value EXCEPT ![s] = v]
            /\ stack' = <<Frame("notify", s, <<>>, <<>>, Null)>>
            /\ writes' = IF s \in Range(ReadsOf("ac")) /\ AsyncsOf(scn) # {} /\ writes < MaxRuns
                         THEN writes + 1 ELSE writes
       ELSE UNCHANGED <<value, stack, writes>>
    /\ UNCHANGED <<scn, subscribers, computedSignals, dependencies, isStale,
                   isComputing, currentComputation, isBatching, batchedSignals,
                   exc, batchDepth, isRunning, isDisposed, abortController,
                   aborted, runs, started, microtasks, lastApplied, firstSettled,
                   timer, acDisposed>>
    /\ draining' = FALSE
    /\ UNCHANGED tracked
    /\ UNCHANGED before
    /\ UNCHANGED atDispose
    /\ UNCHANGED windows
    /\ UNCHANGED clock
    /\ UNCHANGED form

\* computed.value read by the caller (the getter of ComputedSignal).
ReadComputed(c) ==
    /\ Task
    /\ before' = Edges
    /\ c \in ComputedsOf(scn)
    /\ handler' = [op |-> "read", n |-> c, v |-> IF Fresh THEN 1 ELSE 0]
    /\ delivered' = IF batchDepth = 0 THEN <<>> ELSE delivered
    /\ IF NeedsRecompute(c)
       THEN /\ stack' = <<Frame("recompute", c, <<>>, <<>>, Null),
                          Frame("getter", c, <<>>, <<>>, Null)>>
            /\ outcome' = <<"none", 0>>
            /\ lastRead' = <<>>
       ELSE /\ stack' = stack
            /\ outcome' = <<"returned", value[c]>>
            /\ lastRead' = <<c, value[c]>>
    /\ UNCHANGED <<scn, value, subscribers, computedSignals, dependencies,
                   isStale, isComputing, currentComputation, isBatching,
                   batchedSignals, exc, batchDepth>>
    /\ UNCHANGED asyncVars
    /\ draining' = FALSE
    /\ UNCHANGED tracked
    /\ UNCHANGED atDispose
    /\ UNCHANGED windows
    /\ UNCHANGED clock
    /\ UNCHANGED form

\* Code that runs while a promise of the AsyncComputed is pending reads cell
\* s (the getter of Signal): the read registers with the tracker, if any.
ReadCell(s) ==
    /\ Task
    /\ AsyncsOf(scn) # {}
    /\ \E i \in 1..Len(runs) : runs[i].st = "pending"
    /\ Begin("readCell", s, value[s])
    /\ dependencies' = TrackDeps(s)
    /\ computedSignals' = TrackCS(s)
    /\ UNCHANGED <<scn, value, subscribers, isStale, isComputing,
                   currentComputation, isBatching, batchedSignals, stack, exc,
                   batchDepth, tracked>>
    /\ UNCHANGED asyncVars
    /\ draining' = FALSE
    /\ UNCHANGED before
    /\ UNCHANGED atDispose
    /\ UNCHANGED windows
    /\ UNCHANGED clock
    /\ UNCHANGED form

\* batch(updateFn) is called: updateFn starts to run.
BatchOpen ==
    /\ Task
    /\ scn \in {"diamond", "untrack", "effect"}
    /\ batchDepth < MaxBatchDepth
    /\ Begin("batch", Null, 0)
    /\ batchDepth' = batchDepth + 1
    /\ effectRuns' = IF microtasks = <<>> /\ batchDepth = 0 THEN 0 ELSE effectRuns
    /\ IF isBatching
       THEN UNCHANGED <<isBatching, batchedSignals>>
       ELSE /\ isBatching' = TRUE
            /\ batchedSignals' = <<>>
    /\ UNCHANGED <<scn, value, subscribers, computedSignals, dependencies,
                   isStale, isComputing, currentComputation, stack, exc,
                   isRunning, isDisposed, abortController, aborted, runs,
                   started, microtasks, lastApplied, writes, firstSettled,
                   timer, acDisposed>>
    /\ draining' = FALSE
    /\ UNCHANGED tracked
    /\ UNCHANGED before
    /\ UNCHANGED atDispose
    /\ UNCHANGED windows
    /\ UNCHANGED clock
    /\ UNCHANGED form

OutermostMutAlways == TRUE

\* The batch call that returns is the one that opened the batch: a call made
\* while isBatching was set only ran updateFn.
Outermost == batchDepth = 1

\* updateFn returns.  The outermost batch runs its finally block: the batch
\* is closed and the dependents of the batched signals are marked stale.
BatchClose ==
    /\ Task
    /\ batchDepth > 0
    /\ handler' = [op |-> "flush", n |-> Null, v |-> batchDepth]
    /\ batchDepth' = batchDepth - 1
    /\ IF Outermost
       THEN /\ isBatching' = FALSE
            /\ batchedSignals' = <<>>
            /\ stack' = <<Frame("flush", Null, batchedSignals, <<>>, Null)>>
       ELSE UNCHANGED <<isBatching, batchedSignals, stack>>
    /\ UNCHANGED <<scn, value, subscribers, computedSignals, dependencies,
                   isStale, isComputing, currentComputation, exc, outcome,
                   lastRead>>
    /\ delivered' = IF batchDepth = 1 THEN <<>> ELSE delivered
    /\ UNCHANGED asyncVars
    /\ draining' = FALSE
    /\ UNCHANGED tracked
    /\ UNCHANGED before
    /\ UNCHANGED atDispose
    /\ UNCHANGED windows
    /\ UNCHANGED clock
    /\ UNCHANGED form

\* ------------------------------------------------------ steps of a handler

BatchFinallyOnThrowMutOpen ==
    /\ UNCHANGED <<isBatching, batchedSignals>>
    /\ stack' = <<Frame("flush", Null, <<>>, <<"Batch error">>, Null)>>

\* The finally block of batch entered because updateFn threw: the batch is
\* closed and the dependents of the batched signals are marked stale, with
\* the exception pending until the block ends.
BatchFinallyOnThrow ==
    /\ isBatching' = FALSE
    /\ batchedSignals' = <<>>
    /\ stack' = <<Frame("flush", Null, batchedSignals, <<"Batch error">>, Null)>>

\* updateFn throws.  A batch call made while isBatching was set has no
\* try block, so the exception leaves every nested call up to the one that
\* opened the batch, whose finally block runs.
BatchThrow ==
    /\ Task
    /\ batchDepth > 0
    /\ handler' = [op |-> "batchThrow", n |-> Null, v |-> batchDepth]
    /\ batchDepth' = 0
    /\ BatchFinallyOnThrow
    /\ outcome' = <<"none", 0>>
    /\ delivered' = <<>>
    /\ UNCHANGED <<scn, value, subscribers, computedSignals, dependencies,
                   isStale, isComputing, currentComputation, exc, lastRead>>
    /\ UNCHANGED asyncVars
    /\ draining' = FALSE
    /\ UNCHANGED <<tracked, before, atDispose, windows>>
    /\ UNCHANGED clock
    /\ UNCHANGED form

\* signalsToNotify.forEach(signal => signal.computedSignals.forEach(...)),
\* one signal.  At the end of the finally block a pending exception goes on
\* to the caller of batch.
StepFlush ==
    /\ exc = None /\ stack # <<>> /\ Top.k = "flush"
    /\ IF Top.q = <<>>
       THEN /\ stack' = Tail(stack)
            /\ outcome' = IF Top.v # <<>> THEN <<"threw", 0>> ELSE outcome
       ELSE /\ stack' = <<Frame("forEach", Head(Top.q), computedSignals[Head(Top.q)],
                                <<>>, Null),
                          [Top EXCEPT !.q = Tail(@)]>> \o Tail(stack)
            /\ outcome' = outcome
    /\ UNCHANGED <<scn, value, subscribers, computedSignals, dependencies,
                   isStale, isComputing, currentComputation, isBatching,
                   batchedSignals, exc, handler, delivered, lastRead,
                   batchDepth>>
    /\ UNCHANGED asyncVars
    /\ UNCHANGED draining
    /\ UNCHANGED tracked
    /\ UNCHANGED before
    /\ UNCHANGED atDispose
    /\ UNCHANGED windows
    /\ UNCHANGED clock
    /\ UNCHANGED form

\* Signal.notify: the subscribers are called with the value, then the
\* dependents are marked stale, or the signal joins the batch.
StepNotify ==
    /\ exc = None /\ stack # <<>> /\ Top.k = "notify"
    /\ delivered' = Cap(delivered \o Called(Top.n))
    /\ IF isBatching
       THEN /\ batchedSignals' = SetAdd(batchedSignals, Top.n)
            /\ stack' = Tail(stack)
       ELSE /\ batchedSignals' = batchedSignals
            /\ stack' = Push(Frame("forEach", Top.n, computedSignals[Top.n], <<>>, Null),
                             Tail(stack))
    /\ UNCHANGED <<scn, value, subscribers, computedSignals, dependencies,
                   isStale, isComputing, currentComputation, isBatching, exc,
                   handler, outcome, lastRead, batchDepth>>
    /\ UNCHANGED asyncVars
    /\ UNCHANGED draining
    /\ UNCHANGED tracked
    /\ UNCHANGED before
    /\ UNCHANGED atDispose
    /\ UNCHANGED windows
    /\ UNCHANGED clock
    /\ UNCHANGED form

\* ComputedSignal.markStale, up to its call of recompute.
MarkStaleComputed(c) ==
    /\ IF ~isStale[c]
       THEN /\ isStale' = [isStale EXCEPT ![c] = TRUE]
            /\ stack' = <<Frame("recompute", c, <<>>, <<>>, Null),
                          Frame("markStale", c, <<>>, <<value[c]>>, Null),
                          [Top EXCEPT !.q = Tail(@)]>> \o Tail(stack)
       ELSE /\ isStale' = isStale
            /\ stack' = Push([Top EXCEPT !.q = Tail(@)], Tail(stack))
    /\ UNCHANGED <<microtasks, timer, windows, clock>>

\* Effect.markStale.
MarkStaleEffect(e) ==
    /\ microtasks' = IF ~isDisposed[e]
                     THEN Append(microtasks, [t |-> "effect", n |-> e])
                     ELSE microtasks
    /\ stack' = Push([Top EXCEPT !.q = Tail(@)], Tail(stack))
    /\ UNCHANGED <<isStale, timer, windows, clock>>

MarkStaleAsyncMutNoSchedule(c) ==
    /\ stack' = Push([Top EXCEPT !.q = Tail(@)], Tail(stack))
    /\ UNCHANGED <<isStale, microtasks, timer, windows, clock>>

\* AsyncComputed.markStale and scheduleComputation.  The call follows a
\* write to a dependency; setTimeout starts the timer's delay.
MarkStaleAsync(c) ==
    /\ IF ~isStale[c]
       THEN /\ isStale' = [isStale EXCEPT ![c] = TRUE]
            /\ IF Debounced
               THEN /\ timer' = TRUE
                    /\ windows' = IF timer THEN windows ELSE windows + 1
                    /\ microtasks' = microtasks
                    /\ clock' = [clock EXCEPT !.age = 0, !.quiet = 0]
               ELSE /\ timer' = FALSE
                    /\ windows' = windows
                    /\ microtasks' = Append(microtasks, [t |-> "recompute", n |-> c])
                    /\ clock' = clock
       ELSE /\ UNCHANGED <<isStale, microtasks, timer, windows>>
            /\ clock' = IF Debounced THEN [clock EXCEPT !.quiet = 0] ELSE clock
    /\ stack' = Push([Top EXCEPT !.q = Tail(@)], Tail(stack))

\* One turn of computedSignals.forEach(computed => computed.markStale()).
StepForEach ==
    /\ exc = None /\ stack # <<>> /\ Top.k = "forEach"
    /\ IF Top.q = <<>>
       THEN /\ stack' = Tail(stack)
            /\ UNCHANGED <<isStale, microtasks, timer, windows, clock>>
       ELSE CASE Head(Top.q) \in Computeds -> MarkStaleComputed(Head(Top.q))
              [] Head(Top.q) \in Effects -> MarkStaleEffect(Head(Top.q))
              [] OTHER -> MarkStaleAsync(Head(Top.q))
    /\ UNCHANGED <<scn, value, subscribers, computedSignals, dependencies,
                   isComputing, currentComputation, isBatching, batchedSignals,
                   exc, handler, outcome, delivered, lastRead, batchDepth,
                   isRunning, isDisposed, abortController, aborted, runs,
                   started, effectRuns, lastApplied, writes, firstSettled,
                   acDisposed>>
    /\ UNCHANGED draining
    /\ UNCHANGED tracked
    /\ UNCHANGED before
    /\ UNCHANGED atDispose
    /\ UNCHANGED form

\* ComputedSignal.markStale after recompute has returned.
StepMarkStale ==
    /\ exc = None /\ stack # <<>> /\ Top.k = "markStale"
    /\ IF StrictNe(value[Top.n], Top.v[1])
       THEN stack' = Push(Frame("notify", Top.n, <<>>, <<>>, Null), Tail(stack))
       ELSE stack' = Tail(stack)
    /\ UNCHANGED <<scn, value, subscribers, computedSignals, dependencies,
                   isStale, isComputing, currentComputation, isBatching,
                   batchedSignals, exc, handler, outcome, delivered, lastRead,
                   batchDepth>>
    /\ UNCHANGED asyncVars
    /\ UNCHANGED draining
    /\ UNCHANGED tracked
    /\ UNCHANGED before
    /\ UNCHANGED atDispose
    /\ UNCHANGED windows
    /\ UNCHANGED clock
    /\ UNCHANGED form

\* ComputedSignal.recompute, up to the call of computeFn.
StepRecompute ==
    /\ exc = None /\ stack # <<>> /\ Top.k = "recompute"
    /\ IF isComputing[Top.n]
       THEN /\ exc' = "Circular dependency detected in computed signal"
            /\ stack' = Tail(stack)
            /\ UNCHANGED <<isComputing, isStale, computedSignals, dependencies,
                           currentComputation, tracked>>
       ELSE /\ exc' = exc
            /\ tracked' = [tracked EXCEPT ![Top.n] = {}]
            /\ isComputing' = [isComputing EXCEPT ![Top.n] = TRUE]
            /\ isStale' = [isStale EXCEPT ![Top.n] = FALSE]
            /\ computedSignals' = ClearDepsCS(dependencies, computedSignals, Top.n)
            /\ dependencies' = [dependencies EXCEPT ![Top.n] = {}]
            /\ stack' = Push(Frame("eval", Top.n, <<>>, <<>>, currentComputation),
                             ClearDepsStack(dependencies, Tail(stack), Top.n))
            /\ currentComputation' = Top.n
    /\ UNCHANGED <<scn, value, subscribers, isBatching, batchedSignals,
                   handler, outcome, delivered, lastRead, batchDepth>>
    /\ UNCHANGED asyncVars
    /\ UNCHANGED draining
    /\ UNCHANGED before
    /\ UNCHANGED atDispose
    /\ UNCHANGED windows
    /\ UNCHANGED clock
    /\ UNCHANGED form

\* The finally block of ComputedSignal.recompute.
Finally(f) ==
    /\ currentComputation' = f.p
    /\ isComputing' = [isComputing EXCEPT ![f.n] = FALSE]

\* computeFn reads signal t with tracking.
EvalRead(t) ==
    IF t \in Computeds /\ NeedsRecompute(t)
    THEN /\ stack' = <<Frame("recompute", t, <<>>, <<>>, Null),
                       Frame("getter", t, <<>>, <<>>, Null)>> \o stack
         /\ UNCHANGED <<computedSignals, dependencies, lastRead, tracked>>
    ELSE /\ tracked' = Seen(t)
         /\ dependencies' = TrackDeps(t)
         /\ computedSignals' = TrackCS(t)
         /\ stack' = TrackStack(t, Return(stack, value[t]))
         /\ lastRead' = IF t \in Computeds THEN <<t, value[t]>> ELSE lastRead

EvalUntrackMutTracked(t) == EvalRead(t)

\* computeFn reads signal t inside untrack: the tracker is null for the read.
EvalUntrack(t) ==
    /\ stack' = Return(stack, value[t])
    /\ UNCHANGED <<computedSignals, dependencies, lastRead, tracked>>

\* computeFn has returned v: the try block of ComputedSignal.recompute.
EvalReturn(v) ==
    IF StrictNe(value[Top.n], v)
    THEN /\ value' = [value EXCEPT ![Top.n] = v]
         /\ stack' = <<Frame("notify", Top.n, <<>>, <<>>, Null),
                       Frame("finally", Top.n, <<>>, <<>>, Top.p)>> \o Tail(stack)
         /\ UNCHANGED <<currentComputation, isComputing>>
    ELSE /\ value' = value
         /\ stack' = Tail(stack)
         /\ Finally(Top)

\* One step of computeFn inside ComputedSignal.recompute.
StepEval ==
    /\ exc = None /\ stack # <<>> /\ Top.k = "eval"
    /\ LET o == Body(Top.n, Top.v) IN
       CASE o.op = "read" ->
              /\ EvalRead(o.t)
              /\ UNCHANGED <<value, currentComputation, isComputing, exc>>
         [] o.op = "untrack" ->
              /\ EvalUntrack(o.t)
              /\ UNCHANGED <<value, currentComputation, isComputing, exc>>
         [] o.op = "throw" ->
              /\ exc' = "Value too large"
              /\ UNCHANGED <<value, currentComputation, isComputing, stack,
                             computedSignals, dependencies, lastRead, tracked>>
         [] OTHER ->
              /\ EvalReturn(o.val)
              /\ UNCHANGED <<computedSignals, dependencies, lastRead, tracked, exc>>
    /\ UNCHANGED <<scn, subscribers, isStale, isBatching, batchedSignals,
                   handler, outcome, delivered, batchDepth>>
    /\ UNCHANGED asyncVars
    /\ UNCHANGED draining
    /\ UNCHANGED before
    /\ UNCHANGED atDispose
    /\ UNCHANGED windows
    /\ UNCHANGED clock
    /\ UNCHANGED form

\* recompute's finally block after notify has returned.
StepFinally ==
    /\ exc = None /\ stack # <<>> /\ Top.k = "finally"
    /\ Finally(Top)
    /\ stack' = Tail(stack)
    /\ UNCHANGED <<scn, value, subscribers, computedSignals, dependencies,
                   isStale, isBatching, batchedSignals, exc, handler, outcome,
                   delivered, lastRead, batchDepth>>
    /\ UNCHANGED asyncVars
    /\ UNCHANGED draining
    /\ UNCHANGED tracked
    /\ UNCHANGED before
    /\ UNCHANGED atDispose
    /\ UNCHANGED windows
    /\ UNCHANGED clock
    /\ UNCHANGED form

\* ComputedSignal.value (getter) after recompute has returned: the read is
\* registered with the tracker and the value returned to the reader.
StepGetter ==
    /\ exc = None /\ stack # <<>> /\ Top.k = "getter"
    /\ tracked' = Seen(Top.n)
    /\ dependencies' = TrackDeps(Top.n)
    /\ computedSignals' = TrackCS(Top.n)
    /\ lastRead' = <<Top.n, value[Top.n]>>
    /\ IF Tail(stack) = <<>>
       THEN /\ stack' = <<>>
            /\ outcome' = <<"returned", value[Top.n]>>
       ELSE /\ stack' = TrackStack(Top.n, Return(Tail(stack), value[Top.n]))
            /\ outcome' = outcome
    /\ UNCHANGED <<scn, value, subscribers, isStale, isComputing,
                   currentComputation, isBatching, batchedSignals, exc, handler,
                   delivered, batchDepth>>
    /\ UNCHANGED asyncVars
    /\ UNCHANGED draining
    /\ UNCHANGED before
    /\ UNCHANGED atDispose
    /\ UNCHANGED windows
    /\ UNCHANGED clock
    /\ UNCHANGED form

EffectFinallyMutNone(f) == UNCHANGED <<currentComputation, isRunning>>

\* The finally block of Effect.run.
EffectFinally(f) ==
    /\ currentComputation' = f.p
    /\ isRunning' = [isRunning EXCEPT ![f.n] = FALSE]

\* The catch and finally blocks of Effect.run for a function that threw, and
\* of AsyncComputed.recompute for a rejected promise of a run that was not
\* aborted: onError is called, then the flags are reset.
StepOnError ==
    /\ exc = None /\ stack # <<>> /\ Top.k = "onError"
    /\ delivered' = Cap(Append(delivered, <<"onError", Top.v[1]>>))
    /\ stack' = Tail(stack)
    /\ IF Top.n \in Effects
       THEN /\ EffectFinally(Top)
            /\ UNCHANGED isComputing
       ELSE /\ isComputing' = [isComputing EXCEPT ![Top.n] = FALSE]
            /\ UNCHANGED <<currentComputation, isRunning>>
    /\ UNCHANGED <<scn, value, subscribers, computedSignals, dependencies,
                   isStale, isBatching, batchedSignals,
                   exc, handler, outcome, lastRead, batchDepth, draining,
                   tracked, before, atDispose, windows>>
    /\ UNCHANGED <<isDisposed, abortController, aborted, runs, started,
                   microtasks, effectRuns, lastApplied, writes, firstSettled,
                   timer, acDisposed>>
    /\ UNCHANGED clock
    /\ UNCHANGED form

ReentrantMutNever(e) == FALSE

\* The Effect's function is running: the first half of the guard of
\* Effect.run.
Reentrant(e) == isRunning[e]

RunnableMutDisposed(e) == ~isRunning[e]

\* The guard of Effect.run.
Runnable(e) == ~(Reentrant(e) \/ isDisposed[e])

\* Effect.run called with the function of frame f on top of the stack, up
\* to the call of effectFn; the call returns 0 to the function of f.
Enter(e) ==
    /\ isRunning' = [isRunning EXCEPT ![e] = TRUE]
    /\ tracked' = [tracked EXCEPT ![e] = {}]
    /\ computedSignals' = ClearDepsCS(dependencies, computedSignals, e)
    /\ dependencies' = [dependencies EXCEPT ![e] = {}]
    /\ currentComputation' = e
    /\ stack' = Push(Frame("body", e, <<>>, <<>>, currentComputation),
                     IF stack = <<>> THEN stack
                     ELSE ClearDepsStack(dependencies, Return(stack, 0), e))

\* One step of the function of the Effect loop: it reads a, writes a + 1 to
\* it while a is below 3, calls run() on the Effect and returns.
StepBody ==
    /\ exc = None /\ stack # <<>> /\ Top.k = "body"
    /\ CASE Len(Top.v) = 0 ->
              /\ EvalRead("a")
              /\ UNCHANGED <<value, currentComputation, isRunning>>
         [] Len(Top.v) = 1 ->
              /\ IF Top.v[1] < 3
                 THEN /\ value' = [value EXCEPT !["a"] = Top.v[1] + 1]
                      /\ stack' = Push(Frame("notify", "a", <<>>, <<>>, Null),
                                       Return(stack, 0))
                 ELSE /\ value' = value
                      /\ stack' = Return(stack, 0)
              /\ UNCHANGED <<currentComputation, isRunning, tracked,
                             dependencies, computedSignals, lastRead>>
         [] Len(Top.v) = 2 ->
              /\ IF Runnable(Top.n)
                 THEN Enter(Top.n)
                 ELSE /\ stack' = Return(stack, 0)
                      /\ UNCHANGED <<currentComputation, isRunning, tracked,
                                     dependencies, computedSignals>>
              /\ UNCHANGED <<value, lastRead>>
         [] OTHER ->
              /\ EffectFinally(Top)
              /\ stack' = Tail(stack)
              /\ UNCHANGED <<value, tracked, dependencies, computedSignals,
                             lastRead>>
    /\ UNCHANGED <<scn, subscribers, isStale, isComputing, isBatching,
                   batchedSignals, exc, handler, outcome, delivered,
                   batchDepth, draining, before, atDispose, windows>>
    /\ UNCHANGED <<isDisposed, abortController, aborted, runs, started,
                   microtasks, effectRuns, lastApplied, writes, firstSettled,
                   timer, acDisposed>>
    /\ UNCHANGED clock
    /\ UNCHANGED form

\* An exception leaves the frame on top of the stack: recompute's catch
\* rethrows and its finally block runs; no other frame handles it.  With no
\* frame left the caller's operation has thrown.
StepUnwind ==
    /\ exc # None /\ stack # <<>>
    /\ IF Top.k \in {"eval", "finally"}
       THEN Finally(Top)
       ELSE UNCHANGED <<currentComputation, isComputing>>
    /\ stack' = Tail(stack)
    /\ IF Tail(stack) = <<>>
       THEN /\ outcome' = <<"threw", 0>>
            /\ exc' = None
       ELSE UNCHANGED <<outcome, exc>>
    /\ UNCHANGED <<scn, value, subscribers, computedSignals, dependencies,
                   isStale, isBatching, batchedSignals, handler, delivered,
                   lastRead, batchDepth>>
    /\ UNCHANGED asyncVars
    /\ UNCHANGED draining
    /\ UNCHANGED tracked
    /\ UNCHANGED before
    /\ UNCHANGED atDispose
    /\ UNCHANGED windows
    /\ UNCHANGED clock
    /\ UNCHANGED form

Step ==
    \/ StepFlush
    \/ StepNotify
    \/ StepForEach
    \/ StepMarkStale
    \/ StepRecompute
    \/ StepEval
    \/ StepFinally
    \/ StepGetter
    \/ StepOnError
    \/ StepBody
    \/ StepUnwind

\* ------------------------------------------------------------- microtasks

\* A microtask runs when the call stack is empty and no batch function is
\* running.
Turn(kind) ==
    /\ Idle
    /\ batchDepth = 0
    /\ microtasks # <<>>
    /\ Head(microtasks).t = kind

\* effectFn throws after the reads it has made.
EffectThrows(e) == scn = "errors" /\ e = "guard" /\ value["a"] > 1

\* Effect.run: past the guard the dependencies are cleared and effectFn
\* makes its reads.  If it then throws, the catch block calls onError with
\* the Effect still running and still the tracker's computation.
Run(e) ==
    IF Runnable(e) /\ Stepwise(e)
    THEN Enter(e)
    ELSE IF Runnable(e)
    THEN /\ tracked' = [tracked EXCEPT ![e] = Range(ReadsOf(e))]
         /\ dependencies' = [dependencies EXCEPT ![e] = Range(ReadsOf(e))]
         /\ computedSignals' = RereadCS(e)
         /\ IF EffectThrows(e)
            THEN /\ isRunning' = [isRunning EXCEPT ![e] = TRUE]
                 /\ currentComputation' = e
                 /\ stack' = <<Frame("onError", e, <<>>, <<value["a"]>>,
                                     currentComputation)>>
            ELSE UNCHANGED <<isRunning, currentComputation, stack>>
    ELSE UNCHANGED <<dependencies, computedSignals, tracked, isRunning,
                     currentComputation, stack>>

\* queueMicrotask(() => this.run()) of an Effect.
RunEffect ==
    /\ Turn("effect")
    /\ LET e == Head(microtasks).n IN
       /\ Begin("effect", e, 0)
       /\ microtasks' = Tail(microtasks)
       /\ Run(e)
       /\ effectRuns' = IF Runnable(e) THEN effectRuns + 1 ELSE effectRuns
    /\ UNCHANGED <<scn, value, subscribers, isStale, isComputing,
                   isDisposed, abortController, aborted, runs, started,
                   isBatching, batchedSignals, exc,
                   batchDepth, lastApplied, writes, firstSettled,
                   timer, acDisposed, before, atDispose>>
    /\ draining' = TRUE
    /\ UNCHANGED windows
    /\ UNCHANGED clock
    /\ UNCHANGED form

\* effect.run() called by the caller at the start of a turn.
CallRun(e) ==
    /\ Task
    /\ e \in EffectsOf(scn)
    /\ microtasks = <<>> /\ batchDepth = 0
    /\ Begin("run", e, 0)
    /\ Run(e)
    /\ effectRuns' = IF Runnable(e) THEN 1 ELSE 0
    /\ UNCHANGED <<scn, value, subscribers, isStale, isComputing,
                   isDisposed, abortController, aborted, runs, started,
                   isBatching, batchedSignals, exc,
                   batchDepth, lastApplied, writes, firstSettled, microtasks,
                   timer, acDisposed, before, atDispose>>
    /\ draining' = FALSE
    /\ UNCHANGED windows
    /\ UNCHANGED clock
    /\ UNCHANGED form

\* computed.dispose() called by the caller: clearDependencies() and
\* subscribers.clear().  The reads of the latest evaluation stop counting as
\* the Computed's dependencies.
DisposeComputed(c) ==
    /\ Task
    /\ scn = "chain" /\ c \in ComputedsOf(scn)
    /\ Begin("disposeComputed", c, 0)
    /\ computedSignals' = ClearDepsCS(dependencies, computedSignals, c)
    /\ dependencies' = [dependencies EXCEPT ![c] = {}]
    /\ subscribers' = [subscribers EXCEPT ![c] = <<>>]
    /\ tracked' = [tracked EXCEPT ![c] = {}]
    /\ UNCHANGED <<scn, value, isStale, isComputing, currentComputation,
                   isBatching, batchedSignals, stack, exc, batchDepth,
                   before, atDispose, windows, clock>>
    /\ UNCHANGED asyncVars
    /\ draining' = FALSE
    /\ UNCHANGED form

\* effect.dispose() called by the caller.  The count of the runs of the
\* function starts again.
DisposeEffect(e) ==
    /\ Task
    /\ e \in EffectsOf(scn)
    /\ Begin("dispose", e, 0)
    /\ isDisposed' = [isDisposed EXCEPT ![e] = TRUE]
    /\ computedSignals' = ClearDepsCS(dependencies, computedSignals, e)
    /\ dependencies' = [dependencies EXCEPT ![e] = {}]
    /\ effectRuns' = 0
    /\ UNCHANGED <<scn, value, subscribers, isStale, isComputing, isRunning,
                   abortController, aborted, runs, started,
                   currentComputation, isBatching, batchedSignals, stack, exc,
                   batchDepth, lastApplied, writes, firstSettled, microtasks,
                   timer, acDisposed, tracked, before, atDispose>>
    /\ draining' = FALSE
    /\ UNCHANGED before
    /\ UNCHANGED atDispose
    /\ UNCHANGED windows
    /\ UNCHANGED clock
    /\ UNCHANGED form

AfterPrefixMutKeep(c, previousComputation) == c

\* The tracker once asyncComputeFn has returned its promise:
\* setCurrentComputation(previousComputation).
AfterPrefix(c, previousComputation) == previousComputation

\* AsyncComputed.recompute up to its await.
AsyncRun(c) ==
    LET ctl == IF isComputing[c] THEN abortController + 1 ELSE abortController
    IN
    /\ abortController' = ctl
    /\ aborted' = IF isComputing[c] THEN aborted \cup {abortController}
                  ELSE aborted
    /\ IF ~isStale[c]
       THEN UNCHANGED <<isComputing, isStale, dependencies, computedSignals,
                        runs, started, tracked, currentComputation>>
       ELSE /\ isComputing' = [isComputing EXCEPT ![c] = TRUE]
            /\ isStale' = [isStale EXCEPT ![c] = FALSE]
            /\ dependencies' = [dependencies EXCEPT ![c] = Range(ReadsOf(c))]
            /\ computedSignals' = RereadCS(c)
            /\ tracked' = [tracked EXCEPT ![c] = Range(ReadsOf(c))]
            /\ currentComputation' = AfterPrefix(c, currentComputation)
            /\ started' = started + 1
            /\ runs' = Append(runs,
                 [id |-> started + 1, ctl |-> ctl,
                  res |-> AsyncResult(c, [i \in 1..Len(ReadsOf(c)) |->
                                               value[ReadsOf(c)[i]]]),
                  st |-> "pending", prev |-> currentComputation])

\* queueMicrotask(() => this.recompute()) of an AsyncComputed.
RecomputeAsync ==
    /\ Turn("recompute")
    /\ Begin("recompute", Head(microtasks).n, 0)
    /\ microtasks' = Tail(microtasks)
    /\ AsyncRun(Head(microtasks).n)
    /\ UNCHANGED <<scn, value, subscribers, isRunning, isDisposed,
                   isBatching, batchedSignals, stack, exc,
                   batchDepth, effectRuns, lastApplied, writes, firstSettled,
                   timer, acDisposed>>
    /\ draining' = TRUE
    /\ UNCHANGED before
    /\ UNCHANGED atDispose
    /\ UNCHANGED windows
    /\ UNCHANGED clock
    /\ UNCHANGED form

\* The debounce timer fires: setTimeout(() => this.recompute(), debounceMs).
TimerFire ==
    /\ Task
    /\ batchDepth = 0
    /\ timer
    /\ clock.age = DebounceTicks
    /\ clock' = [clock EXCEPT !.fired = clock.quiet]
    /\ timer' = FALSE
    /\ Begin("timer", "ac", 0)
    /\ AsyncRun("ac")
    /\ UNCHANGED <<scn, value, subscribers, isRunning, isDisposed,
                   isBatching, batchedSignals, stack, exc, microtasks,
                   batchDepth, effectRuns, lastApplied, writes, firstSettled,
                   acDisposed>>
    /\ draining' = FALSE
    /\ UNCHANGED before
    /\ UNCHANGED atDispose
    /\ UNCHANGED windows
    /\ UNCHANGED form

\* A tick of the clock passes between two tasks while the debounce timer is
\* pending; the timer fires once its delay has passed.
Tick ==
    /\ Task
    /\ batchDepth = 0 /\ microtasks = <<>>
    /\ timer
    /\ clock.age < DebounceTicks
    /\ clock' = [clock EXCEPT !.age = @ + 1,
                              !.quiet = IF @ < DebounceTicks THEN @ + 1 ELSE @]
    /\ UNCHANGED <<scn, value, subscribers, computedSignals, dependencies,
                   isStale, isComputing, currentComputation, isBatching,
                   batchedSignals, stack, exc, handler, outcome, delivered,
                   lastRead, batchDepth, draining, tracked, before, atDispose,
                   windows>>
    /\ UNCHANGED asyncVars
    /\ UNCHANGED form

\* setState(key, 1) of the form store, up to its await: the new data is the
\* store's current data with the key set.
SetStateCall(key) ==
    /\ Task
    /\ scn = "form" /\ key \notin form.called
    /\ Begin("setState", key, 1)
    /\ form' = [form EXCEPT
                  !.called = @ \cup {key},
                  !.calls = @ \cup {[key |-> key,
                                     newData |-> [form.data EXCEPT ![key] = 1]]}]
    /\ UNCHANGED <<scn, value, subscribers, computedSignals, dependencies,
                   isStale, isComputing, currentComputation, isBatching,
                   batchedSignals, stack, exc, batchDepth, draining, tracked,
                   before, atDispose, windows, clock>>
    /\ UNCHANGED asyncVars

\* Validation and schema resolution of a setState call have finished: the
\* store's state is replaced by one holding the call's new data.
SetStateResume(call) ==
    /\ Task
    /\ scn = "form" /\ call \in form.calls
    /\ Begin("setStateDone", call.key, 1)
    /\ form' = [form EXCEPT !.data = call.newData, !.calls = @ \ {call}]
    /\ UNCHANGED <<scn, value, subscribers, computedSignals, dependencies,
                   isStale, isComputing, currentComputation, isBatching,
                   batchedSignals, stack, exc, batchDepth, draining, tracked,
                   before, atDispose, windows, clock>>
    /\ UNCHANGED asyncVars

\* The promise of run r resolves: the rest of recompute is queued.
Settle(r) ==
    /\ Task
    /\ batchDepth = 0
    /\ r \in 1..Len(runs)
    /\ runs[r].st = "pending"
    /\ runs' = [runs EXCEPT ![r].st = "resolved"]
    /\ firstSettled' = IF runs[r].id = 1 THEN writes ELSE firstSettled
    /\ microtasks' = Append(microtasks, [t |-> "resume", n |-> runs[r].id])
    /\ UNCHANGED <<scn, value, subscribers, computedSignals, dependencies,
                   isStale, isComputing, isRunning, isDisposed, abortController,
                   aborted, started, currentComputation, isBatching,
                   batchedSignals, stack, exc, handler, outcome, delivered,
                   lastRead, batchDepth, effectRuns, lastApplied, writes>>
    /\ draining' = FALSE
    /\ UNCHANGED <<timer, acDisposed>>
    /\ UNCHANGED tracked
    /\ UNCHANGED before
    /\ UNCHANGED atDispose
    /\ UNCHANGED windows
    /\ UNCHANGED clock
    /\ UNCHANGED form

\* asyncComputed.dispose() called by the caller.
DisposeAsync(c) ==
    /\ Task
    /\ c \in AsyncsOf(scn)
    /\ Begin("dispose", c, 0)
    /\ aborted' = aborted \cup {abortController}
    /\ timer' = FALSE
    /\ computedSignals' = ClearDepsCS(dependencies, computedSignals, c)
    /\ dependencies' = [dependencies EXCEPT ![c] = {}]
    /\ subscribers' = [subscribers EXCEPT ![c] = <<>>]
    /\ acDisposed' = TRUE
    /\ atDispose' = IF acDisposed THEN atDispose
                    ELSE [started |-> started, value |-> value[c]]
    /\ UNCHANGED <<scn, value, isStale, isComputing, isRunning, isDisposed,
                   abortController, runs, started, currentComputation,
                   isBatching, batchedSignals, stack, exc, batchDepth,
                   effectRuns, lastApplied, writes, firstSettled, microtasks,
                   tracked, before>>
    /\ draining' = FALSE
    /\ UNCHANGED windows
    /\ UNCHANGED clock
    /\ UNCHANGED form

\* localAbortSignal.aborted of run r.
IsAbortedMutNever(r) == FALSE

IsAborted(r) == r.ctl \in aborted

\* The awaited promise of run r rejected.
IsRejectedMutNever(r) == FALSE

IsRejected(r) == r.res = Rejected

\* AsyncComputed.recompute after its await: the result is applied unless the
\* run's AbortSignal is aborted; a rejection goes to the catch block.
ResumeAsync ==
    /\ Turn("resume")
    /\ LET id == Head(microtasks).n
           r == CHOOSE x \in Range(runs) : x.id = id
       IN
       /\ Begin(IF IsRejected(r) THEN "reject" ELSE "resume", "ac", id)
       /\ microtasks' = Tail(microtasks)
       /\ runs' = SelectSeq(runs, LAMBDA x : x.id # id)
       /\ IF IsRejected(r)
          THEN /\ currentComputation' = r.prev
               /\ UNCHANGED <<value, lastApplied, isComputing>>
               /\ stack' = IF IsAborted(r) THEN stack
                           ELSE <<Frame("onError", "ac", <<>>, <<id>>, Null)>>
          ELSE /\ UNCHANGED currentComputation
               /\ IF IsAborted(r)
                  THEN UNCHANGED <<value, stack, lastApplied, isComputing>>
                  ELSE /\ isComputing' = [isComputing EXCEPT !["ac"] = FALSE]
                       /\ IF StrictNe(value["ac"], r.res)
                          THEN /\ value' = [value EXCEPT !["ac"] = r.res]
                               /\ stack' = <<Frame("notify", "ac", <<>>, <<>>, Null)>>
                               /\ lastApplied' = id
                          ELSE UNCHANGED <<value, stack, lastApplied>>
    /\ UNCHANGED <<scn, subscribers, computedSignals, dependencies, isStale,
                   isRunning, isDisposed, abortController, aborted, started,
                   isBatching, batchedSignals, exc,
                   batchDepth, effectRuns, writes, firstSettled,
                   timer, acDisposed>>
    /\ draining' = TRUE
    /\ UNCHANGED tracked
    /\ UNCHANGED before
    /\ UNCHANGED atDispose
    /\ UNCHANGED windows
    /\ UNCHANGED clock
    /\ UNCHANGED form

Next ==
    \/ \E s \in Cells, v \in 1..MaxVal : Write(s, v)
    \/ \E c \in Computeds : ReadComputed(c)
    \/ ReadCell("b")
    \/ BatchOpen
    \/ BatchClose
    \/ BatchThrow
    \/ Step
    \/ RunEffect
    \/ \E e \in Effects : CallRun(e)
    \/ \E e \in Effects : DisposeEffect(e)
    \/ \E c \in Computeds : DisposeComputed(c)
    \/ RecomputeAsync
    \/ TimerFire
    \/ Tick
    \/ \E key \in Keys : SetStateCall(key)
    \/ \E call \in form.calls : SetStateResume(call)
    \/ \E c \in Asyncs : DisposeAsync(c)
    \/ \E r \in 1..MaxRuns : Settle(r)
    \/ ResumeAsync

Spec == Init /\ [][Next]_vars

\* A handler that has started keeps running: JavaScript does not stop in the
\* middle of a call.
FairSpec == Spec /\ WF_vars(Step)

\* ------------------------------------------------------------------ claims

\* The function of Computed c evaluated on the current values of the cells.
Expected(c) ==
    CASE c = "left" -> JsMul(value["a"], 2)
      [] c = "right" -> JsMul(value["a"], 3)
      [] c = "result" -> JsAdd(JsMul(value["a"], 2), JsMul(value["a"], 3))
      [] c = "comp" -> JsAdd(value["a"], value["b"])
      [] OTHER -> Undefined

\* The Computed whose subscriber is callback cb.
SignalOf(cb) == IF cb = "onResult" THEN "result" ELSE "comp"

\* The deliveries to callback cb in the log.
DeliveriesTo(cb) == SelectSeq(delivered, LAMBDA d : d[1] = cb)

\* Nothing is running and nothing is scheduled.
Quiescent == stack = <<>> /\ microtasks = <<>> /\ runs = <<>>

\* C1: outside a batch, a read of a Computed that returns while a write or a
\* read is handled returns the Computed's function evaluated on the current
\* values of the cells (diamond: left, right and result).
C1_ReadReturnsCurrent ==
    (scn = "diamond" /\ batchDepth = 0 /\ handler.op \in {"write", "read"}
        /\ lastRead # <<>>)
    => lastRead[2] = Expected(lastRead[1])

\* C2: in the diamond a single write to a, outside a batch, delivers at most
\* one notification to the subscriber of result, and every value delivered is
\* the one computed from the new left and the new right.
C2_DiamondOneNotification ==
    (scn = "diamond" /\ batchDepth = 0 /\ handler.op = "write")
    => /\ Len(DeliveriesTo("onResult")) <= 1
       /\ \A i \in 1..Len(delivered) :
            delivered[i][1] = "onResult" => delivered[i][2] = Expected("result")

\* C3: when the outermost batch closes, the subscriber of a Computed is
\* notified at most once, with the value computed from the cells' final values.
C3_BatchOneNotification ==
    (handler.op = "flush" /\ handler.v = 1)
    => \A cb \in {"onResult", "onComp"} :
         /\ Len(DeliveriesTo(cb)) <= 1
         /\ \A i \in 1..Len(delivered) :
              delivered[i][1] = cb => delivered[i][2] = Expected(SignalOf(cb))

\* C4: marking a Computed stale calls nothing: while markStale is on the call
\* stack it is the running call, so neither recompute (which invokes the
\* function) nor notify runs inside it.
C4_MarkStaleCallsNothing ==
    \A i \in 1..Len(stack) : stack[i].k = "markStale" => i = 1

\* C5: the continuation of a run of the AsyncComputed that a later run has
\* superseded does not change the value and notifies nobody.
C5_SupersededRunDropped ==
    (handler.op = "resume" /\ handler.v < started)
    => /\ stack = <<>>
       /\ delivered = <<>>
       /\ lastApplied # handler.v

\* C5 witness: the first run resumed after a second run had started, and the
\* value is still the initial one.
C5_Witness ==
    /\ scn = "async"
    /\ handler.op = "resume" /\ handler.v = 1 /\ started = 2
    /\ value["ac"] = Undefined

\* C6: when the dependency was written twice before the first run's promise
\* resolved and every run has settled, the value of the AsyncComputed (not
\* disposed) is the result computed from the value of the second write.
C6_FinalValueFromSecondWrite ==
    (scn = "async" /\ ~acDisposed /\ writes = 2 /\ firstSettled = 2 /\ Quiescent)
    => value["ac"] = AsyncResult("ac", <<value["a"]>>)

\* C6 witness: two writes before the first promise resolved, the second one
\* of 3, everything settled and the value is 6.
C6_Witness ==
    /\ scn = "async" /\ ~acDisposed /\ writes = 2 /\ firstSettled = 2 /\ Quiescent
    /\ value["a"] = 3 /\ value["ac"] = 6

\* C7: the first read of one of two Computeds that read each other ends, and
\* ends by throwing to the caller.
C7_CycleRaises ==
    (scn \in {"cycle", "flags"} /\ handler.op = "read" /\ handler.v = 1)
    ~> (outcome[1] = "threw")

\* C8: the Effect's function runs at most once for the writes of one turn.
C8_EffectRunsOncePerTurn ==
    scn = "effect" => effectRuns <= 1

\* C9: a write to the cell that comp reads inside untrack touches nothing of
\* comp (b has no dependent, the call stack holds only the write's own
\* notification, nobody is notified), and every notification of comp made
\* while a write to a is handled carries a + b for the current b.
C9_UntrackedNotSubscribed ==
    scn = "untrack"
    => /\ computedSignals["b"] = <<>>
       /\ "b" \notin dependencies["comp"]
       /\ (handler.op = "write" /\ handler.n = "b")
            => /\ \A i \in 1..Len(stack) : stack[i].n = "b" /\ stack[i].q = <<>>
               /\ (batchDepth = 0 => delivered = <<>>)
       /\ (handler.op = "write" /\ handler.n = "a" /\ batchDepth = 0)
            => \A i \in 1..Len(delivered) : delivered[i][2] = Expected("comp")

\* C9 witness: comp is notified of a + b while a write to a is handled, b
\* having been written.
C9_Witness ==
    /\ scn = "untrack"
    /\ handler.op = "write" /\ handler.n = "a" /\ batchDepth = 0
    /\ value["b"] = 2 /\ value["a"] = 3
    /\ delivered # <<>> /\ delivered[1] = <<"onComp", 5>>

\* C10: while the function of a batch is running, no subscriber of a written
\* cell is invoked and no dependent is marked stale or scheduled.
C10_BatchDefersNotifications ==
    batchDepth > 0
    => /\ DeliveriesTo("onA") = <<>>
       /\ \A i \in 1..Len(stack) : stack[i].k \notin {"forEach", "markStale"}
       /\ (microtasks # <<>> => ~isBatching)

\* C11: while a batch function is running the batch stays open and no pass
\* over dependents runs, also after an inner batch call has returned: the
\* inner call's return leaves the call stack empty.
C11_NestedBatchFlat ==
    batchDepth > 0
    => /\ isBatching
       /\ \A i \in 1..Len(stack) :
            stack[i].k \notin {"flush", "forEach", "markStale"}
       /\ (handler.op = "flush" => stack = <<>>)

\* C11 witness: an inner batch call has returned after a write, the outer
\* batch is still open and the written cell is still pending.
C11_Witness ==
    /\ batchDepth = 1 /\ isBatching
    /\ handler.op = "flush" /\ handler.v = 2
    /\ batchedSignals = <<"a">> /\ value["a"] = 2

\* C12: a Computed that is not being evaluated, and an Effect that has not
\* been disposed, has as its dependency set exactly the signals it read with
\* tracking in its latest run, and exactly those signals list it as a
\* dependent: a cell it read only in an earlier run does not reach it.
C12_DependenciesAreLatestReads ==
    \A c \in ComputedsOf(scn) \cup EffectsOf(scn) :
        ((c \in Computeds => ~isComputing[c]) /\ (c \in Effects => ~isDisposed[c]))
        => /\ dependencies[c] = tracked[c]
           /\ \A s \in Signals : c \in Range(computedSignals[s]) <=> s \in tracked[c]

\* C12 witness: pick was 3, the value of b, from a run that read b (a was
\* 1); the run made for the write of 2 to a has read only a, and b no longer
\* lists pick.
C12_Witness ==
    /\ scn = "cond"
    /\ handler.op = "write" /\ handler.n = "a" /\ value["a"] = 2
    /\ stack # <<>> /\ Top.k = "markStale" /\ Top.n = "pick" /\ Top.v = <<3>>
    /\ value["b"] = 3 /\ value["pick"] = 2 /\ ~isComputing["pick"]
    /\ tracked["pick"] = {"a"} /\ dependencies["pick"] = {"a"}
    /\ computedSignals["b"] = <<>>

\* C13: while one write outside a batch is handled, no subscriber of a
\* Computed is called twice with the same value.
C13_NoDoubleDelivery ==
    (handler.op = "write" /\ batchDepth = 0)
    => \A i, j \in 1..Len(delivered) :
         (i < j /\ delivered[i][1] \in {"onComp", "onResult"})
           => delivered[i] # delivered[j]

\* C14: the dependency set of the AsyncComputed is the set of cells its
\* function reads before it returns the promise, whatever is read while a
\* promise is pending; between handlers the tracker does not point at the
\* AsyncComputed.
C14_AsyncDepsArePrefixReads ==
    (AsyncsOf(scn) # {} /\ ~acDisposed)
    => /\ dependencies["ac"] = Range(ReadsOf("ac"))
       /\ "ac" \notin Range(computedSignals["b"])
       /\ (stack = <<>> => currentComputation # "ac")

\* C14 witness: cell b was read while the promise of a re-run was pending,
\* and the dependency set is still {a}.
C14_Witness ==
    /\ AsyncsOf(scn) # {} /\ ~acDisposed
    /\ handler.op = "readCell" /\ handler.n = "b"
    /\ started = 2 /\ \E i \in 1..Len(runs) : runs[i].id = 2 /\ runs[i].st = "pending"
    /\ dependencies["ac"] = {"a"}

\* C15: a Computed whose function threw stays marked stale, so a read made
\* while its function would throw throws again instead of returning the
\* value cached before.
C15_ThrowKeepsStale ==
    (scn = "throws" /\ stack = <<>> /\ exc = None)
    => /\ (outcome[1] = "threw" => isStale["errorComputed"])
       /\ ((handler.op = "read" /\ value["a"] > 1) => outcome[1] = "threw")

\* C16: the write to the cell a throwing Computed depends on completes
\* without throwing; only reads of the Computed throw.
C16_WriteDoesNotThrow ==
    (scn = "throws" /\ handler.op = "write" /\ stack = <<>> /\ exc = None)
    => outcome[1] # "threw"

\* C17: when a read ends with the circular-dependency failure, the edges are
\* those of the graph before the read, no computation is flagged as
\* computing and the tracker is restored.
C17_CycleFailureLeavesGraph ==
    (scn \in {"cycle", "flags"} /\ handler.op = "read" /\ stack = <<>>
       /\ exc = None /\ outcome[1] = "threw")
    => /\ Edges = before
       /\ \A c \in Computeds : ~isComputing[c]
       /\ currentComputation = Null

\* C18: once an Effect is disposed its function is not run again, whether by
\* a write, by a re-run queued before dispose or by a direct run(), and no
\* cell lists the Effect as a dependent.
C18_DisposedEffectNeverRuns ==
    \A e \in EffectsOf(scn) :
        isDisposed[e]
        => /\ effectRuns = 0
           /\ dependencies[e] = {}
           /\ \A s \in Signals : e \notin Range(computedSignals[s])

\* C18 witness: a re-run queued by a write before dispose has had its turn
\* after dispose.
C18_Witness ==
    /\ scn = "effect" /\ isDisposed["e"]
    /\ handler.op = "effect" /\ microtasks = <<>>
    /\ value["a"] = 2

\* C19: once the AsyncComputed is disposed its function is not invoked, its
\* value does not change, no subscriber is notified and no cell lists it as
\* a dependent, whatever was in flight or scheduled at dispose.
C19_DisposedAsyncIsInert ==
    (AsyncsOf(scn) # {} /\ acDisposed)
    => /\ started = atDispose.started
       /\ value["ac"] = atDispose.value
       /\ \A i \in 1..Len(delivered) : delivered[i][1] # "onAc"
       /\ \A s \in Signals : "ac" \notin Range(computedSignals[s])

\* C20: with a debounce, every window that has ended started exactly one run
\* of the AsyncComputed, whatever the number of writes in it; nothing runs
\* before the window ends, and the run started at its end was computed from
\* the dependency values of that moment.
C20_DebounceOneRunPerWindow ==
    (scn = "debounce" /\ ~acDisposed)
    => /\ started = 1 + windows - (IF timer THEN 1 ELSE 0)
       /\ Pending("recompute") = 0
       /\ (handler.op = "timer"
             => \E i \in 1..Len(runs) :
                   /\ runs[i].id = started
                   /\ runs[i].res = AsyncResult("ac", <<value["a"]>>))

\* C20 witness: two writes, of 2 and then of 3, fell in the first window;
\* at its end one run started, computed from 3.
C20_Witness ==
    /\ scn = "debounce" /\ ~acDisposed
    /\ handler.op = "timer" /\ windows = 1 /\ writes = 2 /\ started = 2
    /\ value["a"] = 3
    /\ \E i \in 1..Len(runs) : runs[i].id = 2 /\ runs[i].res = 6

\* C27: in every state a computation is among a signal's dependents exactly
\* when the signal is among the computation's dependencies.
C27_EdgesMirrored ==
    \A c \in Computations, s \in Signals :
        c \in Range(computedSignals[s]) <=> s \in dependencies[c]

\* C27 witness: pick is being re-evaluated for a write of 2 to a; its edges
\* were removed on both sides, the edge to a is back and the one to b is not.
C27_Witness ==
    /\ scn = "cond" /\ handler.op = "write" /\ handler.n = "a"
    /\ stack # <<>> /\ Top.k = "eval" /\ Top.n = "pick" /\ Top.v = <<2>>
    /\ dependencies["pick"] = {"a"}
    /\ computedSignals["a"] = <<"pick">> /\ computedSignals["b"] = <<>>

\* C25: a write of the value a cell already holds changes nothing: the value,
\* the call stack (no subscriber or dependent is called), the stale flags,
\* what is scheduled and the pending set of an open batch stay as they are.
C25_SameValueWriteIsNoOp ==
    [][\A s \in Cells, v \in 1..MaxVal :
          (Write(s, v) /\ value[s] = v)
          => /\ UNCHANGED <<value, stack, isStale, microtasks, timer,
                            batchedSignals, computedSignals, dependencies>>
             /\ Len(delivered') <= Len(delivered)]_vars

\* C25 witness: inside a batch the value 1 was written to a, which held 1,
\* has a subscriber and the Effect as a dependent; the pending set is empty.
C25_Witness ==
    /\ scn = "effect" /\ batchDepth > 0
    /\ handler.op = "write" /\ handler.n = "a" /\ handler.v = 1
    /\ value["a"] = 1 /\ stack = <<>>
    /\ batchedSignals = <<>> /\ delivered = <<>> /\ microtasks = <<>>

\* C24: a recomputation of a Computed that returns the cached value leaves
\* the value and calls nothing (no subscriber, no dependent), in recompute
\* and in the markStale that called it; a run of the AsyncComputed that
\* resolves to the cached value is not applied and notifies nobody.
C24_EqualValueKept ==
    [][/\ (/\ exc = None /\ stack # <<>> /\ Top.k = "eval"
            /\ Body(Top.n, Top.v).op = "ret"
            /\ Body(Top.n, Top.v).val = value[Top.n]
            /\ value[Top.n] # NaN)
          => /\ stack' = Tail(stack)
             /\ UNCHANGED <<value, delivered, isStale, microtasks>>
       /\ (/\ exc = None /\ stack # <<>> /\ Top.k = "markStale"
            /\ Top.v = <<value[Top.n]>> /\ value[Top.n] # NaN)
          => /\ stack' = Tail(stack)
             /\ UNCHANGED <<value, delivered, isStale, microtasks>>
       /\ (/\ stack = <<>> /\ microtasks # <<>>
            /\ Head(microtasks).t = "resume"
            /\ microtasks' = Tail(microtasks) /\ handler'.op = "resume"
            /\ \E x \in Range(runs) :
                  x.id = Head(microtasks).n /\ x.res = value["ac"])
          => /\ stack' = <<>>
             /\ UNCHANGED <<value, isStale, lastApplied>>
             /\ delivered' = <<>>]_vars

\* C24 witness: during a write to a, comp was recomputed again to the value
\* 3 it held; its subscriber has the deliveries made before and no other.
C24_Witness ==
    /\ scn = "untrack" /\ handler.op = "write" /\ handler.n = "a"
    /\ stack # <<>> /\ Top.k = "markStale" /\ Top.n = "comp"
    /\ Top.v = <<3>> /\ value["comp"] = 3
    /\ delivered = << <<"onComp", 3>>, <<"onComp", 3>> >>

\* C26: every write to a cell and every flush at the close of a batch ends:
\* the calls it makes all return (or throw) to the caller.
C26_WriteTerminates ==
    (handler.op \in {"write", "flush"} /\ stack # <<>>) ~> (stack = <<>>)

\* C29: a result the AsyncComputed applies comes from a run that started
\* after the latest write to its dependency: when a continuation has applied
\* its result no write has marked the AsyncComputed stale since that run
\* started, and no later run has started.
C29_NoStalePublish ==
    (AsyncsOf(scn) # {} /\ ~acDisposed
       /\ handler.op = "resume" /\ lastApplied = handler.v)
    => (~isStale["ac"] /\ handler.v = started)

\* C30: when a write to a has been handled, also when the recomputation of
\* errorComputed threw in it, the other dependent of a is stale or holds its
\* function's value for the current a.
C30_ThrowDoesNotSkipDependents ==
    (scn = "throws" /\ handler.op = "write" /\ stack = <<>> /\ exc = None
       /\ "left" \in Range(computedSignals["a"]))
    => (isStale["left"] \/ value["left"] = Expected("left"))

\* C21: the continuation of a run that was not aborted and whose promise
\* rejected calls onError and nothing else: the value, the stale flag, the
\* edges and the subscribers stay; when it has ended onError has been called
\* once, no subscriber was called, the AsyncComputed is not computing and is
\* still a dependent of a, so that a write to a schedules it (or has).
C21_RejectionKeepsValue ==
    /\ [][(/\ stack = <<>> /\ microtasks # <<>>
            /\ Head(microtasks).t = "resume"
            /\ microtasks' = Tail(microtasks)
            /\ \E x \in Range(runs) :
                  /\ x.id = Head(microtasks).n
                  /\ x.res = Rejected /\ x.ctl \notin aborted)
          => /\ stack' = <<Frame("onError", "ac", <<>>, <<Head(microtasks).n>>, Null)>>
             /\ delivered' = <<>>
             /\ UNCHANGED <<value, isStale, dependencies, computedSignals,
                            subscribers>>]_vars
    /\ []((/\ handler.op = "reject" /\ handler.v = started
            /\ ~acDisposed /\ stack = <<>>)
          => /\ delivered = << <<"onError", handler.v>> >>
             /\ ~isComputing["ac"]
             /\ value["ac"] # Rejected
             /\ "ac" \in Range(computedSignals["a"])
             /\ (isStale["ac"] => Pending("recompute") > 0))

\* C21 witness: the first run resolved to 2; the second run, started for a
\* write that makes the function fail, rejected and onError was called.
C21_Witness ==
    /\ scn = "reject" /\ ~acDisposed /\ stack = <<>>
    /\ handler.op = "reject" /\ handler.v = 2 /\ started = 2
    /\ lastApplied = 1 /\ value["ac"] = 2 /\ value["a"] > 1
    /\ delivered = << <<"onError", 2>> >>

\* C23: the loop of notify calls every subscriber of the cell with the new
\* value although the first one throws, nothing is thrown, the cell keeps
\* its value and its dependents are marked stale next (or the cell joins the
\* batch); the write has not thrown when it has ended.
C23_ThrowingSubscriberContained ==
    /\ [][(/\ scn = "errors" /\ exc = None /\ stack # <<>>
            /\ Top.k = "notify" /\ Top.n = "a" /\ stack' # stack)
          => /\ delivered' = Cap(delivered \o
                    << <<"errorCallback", value["a"]>>,
                       <<"normalCallback", value["a"]>> >>)
             /\ exc' = None
             /\ value' = value
             /\ IF isBatching
                THEN "a" \in Range(batchedSignals')
                ELSE /\ stack'[1].k = "forEach"
                     /\ stack'[1].q = computedSignals["a"]]_vars
    /\ []((/\ scn = "errors" /\ handler.op = "write" /\ handler.n = "a"
            /\ stack = <<>>)
          => /\ outcome[1] # "threw"
             /\ value["a"] = handler.v)

\* C23 witness: a write of 2 to a outside a batch has ended: both subscribers
\* were called with 2 and the Effect that depends on a is scheduled.
C23_Witness ==
    /\ scn = "errors" /\ handler.op = "write" /\ handler.n = "a"
    /\ handler.v = 2 /\ value["a"] = 2 /\ stack = <<>> /\ batchDepth = 0
    /\ delivered = << <<"errorCallback", 2>>, <<"normalCallback", 2>> >>
    /\ Pending("effect") = 1 /\ outcome[1] # "threw"

\* C22: when a run of the Effect whose function threw has ended, onError was
\* called with the error, nothing was thrown to the caller, the Effect is not
\* running, the tracker is back to null and the Effect is still a dependent
\* of the cell it read before the throw.
C22_EffectErrorHandled ==
    (/\ scn = "errors" /\ handler.op \in {"effect", "run"}
     /\ handler.n = "guard" /\ ~isDisposed["guard"] /\ value["a"] > 1
     /\ stack = <<>>)
    => /\ delivered = << <<"onError", value["a"]>> >>
       /\ outcome[1] # "threw" /\ exc = None
       /\ ~isRunning["guard"]
       /\ currentComputation = Null
       /\ dependencies["guard"] = {"a"}
       /\ "guard" \in Range(computedSignals["a"])

\* C22 witness: the Effect threw in the run scheduled by a write of 2, was
\* scheduled again by a write of 3 and threw again.
C22_Witness ==
    /\ scn = "errors" /\ handler.op = "effect" /\ handler.n = "guard"
    /\ ~isDisposed["guard"] /\ value["a"] = 3 /\ stack = <<>>
    /\ delivered = << <<"onError", 3>> >> /\ effectRuns = 2
    /\ ~isRunning["guard"] /\ currentComputation = Null

\* C28: whenever no evaluation is in progress the tracker is null, also
\* after the promise of an AsyncComputed has rejected, and no computation
\* has become a dependent of a cell that only the caller read.
C28_TrackerRestored ==
    (stack = <<>> /\ exc = None)
    => /\ currentComputation = Null
       /\ \A c \in Computations : dependencies[c] \subseteq tracked[c]

\* C31: a read of a Computed that returns inside an open batch returns the
\* Computed's function evaluated on the current values of the cells, the
\* writes made in the batch included (diamond: left and right).
C31_ReadInBatchSeesWrite ==
    (/\ scn = "diamond" /\ batchDepth > 0 /\ handler.op = "read"
     /\ handler.n \in {"left", "right"} /\ stack = <<>>
     /\ outcome[1] = "returned")
    => outcome[2] = Expected(handler.n)

\* C32: when the function passed to batch throws, the values written stay,
\* the batch is closed and the dependents of the batched cells are marked
\* stale next; from then on no batch is open and the pending set is empty,
\* and when the call has ended the exception has reached the caller.
C32_ThrowingBatchCloses ==
    /\ [][BatchThrow
          => /\ value' = value
             /\ ~isBatching' /\ batchedSignals' = <<>>
             /\ stack'[1].k = "flush" /\ stack'[1].q = batchedSignals]_vars
    /\ [](handler.op = "batchThrow"
          => /\ ~isBatching /\ batchedSignals = <<>> /\ batchDepth = 0
             /\ (stack = <<>> => outcome[1] = "threw"))

\* C32 witness: the batch function wrote 2 to a and threw; the call has
\* ended, a is 2 and the Effect that depends on a is scheduled.
C32_Witness ==
    /\ scn = "effect" /\ handler.op = "batchThrow" /\ stack = <<>>
    /\ value["a"] = 2 /\ outcome[1] = "threw" /\ Pending("effect") = 1
    /\ ~isBatching /\ batchedSignals = <<>> /\ batchDepth = 0

\* C33: the function of a computation is never active twice: no two frames
\* of the call stack are evaluations of the same Computed's function or
\* runs of the same Effect's function.
C33_NoReentry ==
    \A i, j \in 1..Len(stack) :
        (i < j /\ stack[i].k \in {"eval", "body"} /\ stack[j].k = stack[i].k)
          => stack[i].n # stack[j].n

\* C33 witness: the Effect's function wrote to the cell it had read, which
\* scheduled the Effect, then called run(), which returned at the guard.
C33_Witness ==
    /\ scn = "selfrun" /\ stack # <<>> /\ Top.k = "body" /\ Top.n = "loop"
    /\ Len(Top.v) = 3 /\ Len(stack) = 1 /\ isRunning["loop"]
    /\ value["a"] = Top.v[1] + 1 /\ Pending("effect") > 0

\* C34: a write outside a batch that changes the cell stores the value and
\* calls notify before any callback has run or any dependent is marked;
\* notify then calls the cell's subscribers with the stored value in
\* subscription order, with no dependent marked stale or scheduled yet, and
\* goes on to the cell's dependents only after that.
C34_StoreNotifyMark ==
    [][/\ \A s \in Cells, v \in 1..MaxVal :
            (Write(s, v) /\ value[s] # v /\ ~isBatching)
            => /\ value'[s] = v /\ delivered' = <<>>
               /\ stack' = <<Frame("notify", s, <<>>, <<>>, Null)>>
               /\ UNCHANGED <<isStale, microtasks, timer>>
       /\ ((/\ exc = None /\ stack # <<>> /\ Top.k = "notify"
            /\ Top.n \in Cells /\ ~isBatching /\ stack' # stack)
           => /\ delivered' = Cap(delivered \o
                    [i \in 1..Len(SubscribersOf(scn, Top.n)) |->
                        <<SubscribersOf(scn, Top.n)[i], value[Top.n]>>])
              /\ UNCHANGED <<value, isStale, microtasks, timer>>
              /\ stack' = Push(Frame("forEach", Top.n, computedSignals[Top.n],
                                     <<>>, Null), Tail(stack)))]_vars

\* C34 witness: after a write of 2 to a, both subscribers have been called
\* with 2 in subscription order and the Effect that depends on a has not
\* been scheduled yet.
C34_Witness ==
    /\ scn = "errors" /\ batchDepth = 0 /\ handler.op = "write"
    /\ handler.n = "a" /\ handler.v = 2 /\ value["a"] = 2
    /\ stack # <<>> /\ Top.k = "forEach" /\ Top.n = "a" /\ Top.q = <<"guard">>
    /\ delivered = << <<"errorCallback", 2>>, <<"normalCallback", 2>> >>
    /\ Pending("effect") = 0

\* C35: with a debounce, a run of the AsyncComputed starts only when the
\* debounce delay has passed since the last write to its dependency, and it
\* is computed from the value the dependency has then.
C35_RunAfterQuietDelay ==
    (scn = "debounce" /\ ~acDisposed /\ handler.op = "timer")
    => /\ clock.fired >= DebounceTicks
       /\ \E i \in 1..Len(runs) :
             /\ runs[i].id = started
             /\ runs[i].res = AsyncResult("ac", <<value["a"]>>)

\* C36: when dispose() of a Computed has returned, no signal lists the
\* Computed among its dependents, the Computed's own set of dependents is
\* empty and it has no subscriber left to call.
C36_DisposedComputedDetached ==
    (handler.op = "disposeComputed" /\ stack = <<>>)
    => /\ \A s \in Signals : handler.n \notin Range(computedSignals[s])
       /\ dependencies[handler.n] = {}
       /\ computedSignals[handler.n] = <<>>
       /\ subscribers[handler.n] = <<>>

\* C37: when setState has been called for both keys and both calls have
\* completed, the store's data holds both updates, whether or not the calls
\* overlapped.
C37_OverlappingSetStatesKept ==
    (scn = "form" /\ form.called = Keys /\ form.calls = {})
    => \A k \in Keys : form.data[k] = 1

====
